---- MODULE Spec2Model ----
(***************************************************************************)
(* A model of the retrieval and persistence pipeline of the repository:    *)
(*   code/my_functions_01.py  fetch_playlist_tracks, save_response,        *)
(*                            chunk_list, fetch_features, process_playlist *)
(*   code/my_functions_02.py  process_features, analyse_column_limits,     *)
(*                            create_table, sql_database                   *)
(* Each function is modelled by its own group of variables and its own     *)
(* specification; a specification leaves the other groups untouched.       *)
(***************************************************************************)
EXTENDS Integers, Sequences, FiniteSets, TLC

VARIABLES
    \* process_playlist / fetch_features (my_functions_01.py)
    pc,               \* the line process_playlist is about to execute
    playlist_fetched, \* the local of that name: a payload or None
    raw_tracks_file,  \* what save_response wrote to <name>_tracks.json
    items,            \* the local of that name
    track_ids,        \* the local of that name
    i,                \* chunk_list's loop variable inside fetch_features
    features_list,    \* the local of fetch_features
    requests,         \* history: every audio-features request with its answer
    exception,        \* the exception that ended process_playlist, if any
    raw_features_file,\* what process_playlist wrote to <name>_features.json
    \* chunk_list called on its own (my_functions_01.py)
    cl_pc, cl_list, cl_n, cl_i, cl_yielded,
    \* create_table called on its own (my_functions_02.py)
    ct_pc,            \* "called" or "returned"
    ct_table_name, ct_col_limit, ct_foreign_key, \* its arguments
    ct_sql,           \* the statement it returns, as its lines
    \* sql_database (my_functions_02.py) and the database file
    st_pc,            \* "idle", or "to_sql": line 240 is next
    st_df, st_type,   \* the arguments of the running (or the last) call
    st_sql,           \* its local sql_table
    db,               \* spotify.db: the table stored under each name
    st_runs,          \* history: the completed runs on each table name
    st_last,          \* history: the records of the last completed run on each
    \* process_features (my_functions_02.py)
    pf_pc,            \* the statement process_features is about to execute
    pf_input,         \* the frame it was called with
    pf_df             \* its local df

fetchVars == <<pc, playlist_fetched, raw_tracks_file, items, track_ids, i,
               features_list, requests, exception, raw_features_file>>
chunkVars == <<cl_pc, cl_list, cl_n, cl_i, cl_yielded>>
tableVars == <<ct_pc, ct_table_name, ct_col_limit, ct_foreign_key, ct_sql>>
storeVars == <<st_pc, st_df, st_type, st_sql, db, st_runs, st_last>>
featureVars == <<pf_pc, pf_input, pf_df>>
vars == <<fetchVars, chunkVars, tableVars, storeVars, featureVars>>

-----------------------------------------------------------------------------
(* Bounds of the model *)

\* the longest playlist the upstream answers with (three batches of ids)
MaxTracks == 41
\* the longest list chunk_list is called on by itself
MaxLen == 4
\* the largest chunk size chunk_list is called with by itself
MaxN == 3
\* the most columns of a profile mapping create_table is called with by itself
MaxCols == 2
\* the most rows of a frame sql_database is called with
MaxRows == 2
\* the most runs of sql_database on one table name
MaxRuns == 2
\* the most entries of a frame process_features is called with
MaxEntries == 3

-----------------------------------------------------------------------------
(* Python values *)

None == [type |-> "NoneType"]

Min(a, b) == IF a <= b THEN a ELSE b

\* list[lo:hi] for 0 <= lo, 0 <= hi: the elements at the 0-based positions
\* lo .. hi-1 that exist (a slice never raises, it is clipped to the list)
PySlice(list, lo, hi) ==
    LET stop == Min(hi, Len(list))
    IN  IF lo >= stop THEN <<>> ELSE [k \in 1..(stop - lo) |-> list[lo + k]]

\* int(s) of a string of decimal digits, the string given as its characters
DigitValue(c) ==
    CASE c = "0" -> 0 [] c = "1" -> 1 [] c = "2" -> 2 [] c = "3" -> 3
      [] c = "4" -> 4 [] c = "5" -> 5 [] c = "6" -> 6 [] c = "7" -> 7
      [] c = "8" -> 8 [] c = "9" -> 9

RECURSIVE int(_)
int(s) == IF s = <<>> THEN 0
          ELSE 10 * int(SubSeq(s, 1, Len(s) - 1)) + DigitValue(s[Len(s)])

-----------------------------------------------------------------------------
(* chunk_list: for i in range(0, len(list), n): yield list[i : i + n] *)

\* range(0, len(list), n) has a next value after the generator stands at i
range_has_next(list, at) == at < Len(list)

\* chunk_at with the slice's end written as n instead of i + n
chunk_at_EndNotOffset(list, n, at) == PySlice(list, at, n)

\* the chunk yielded when the loop variable is i
chunk_at(list, n, at) == PySlice(list, at, at + n)

\* the loop variable of the next iteration
range_step(n, at) == at + n

\* list(chunk_list(list, n)): everything the generator yields, from position at
RECURSIVE chunks_from(_, _, _)
chunks_from(list, n, at) ==
    IF range_has_next(list, at)
    THEN <<chunk_at(list, n, at)>> \o chunks_from(list, n, range_step(n, at))
    ELSE <<>>

chunk_list(list, n) == chunks_from(list, n, 0)

-----------------------------------------------------------------------------
(* The upstream *)

\* the batch size fetch_features passes to chunk_list
BatchSize == 20

HTTP_OK == 200
HTTP_TOO_MANY_REQUESTS == 429

\* statuses the playlist endpoint answers with
PlaylistStatuses == {200, 401, 404}
\* statuses the audio-features endpoint answers with
FeatureStatuses == {200, 429, 403, 500}

\* the headers of an answer: without Retry-After, or with it as digits
HeaderSets == { <<>> } \cup
              { <<[name |-> "Retry-After", value |-> v]>> :
                    v \in { <<"0">>, <<"2">>, <<"1", "0">> } }

HasHeader(headers, name) == \E k \in 1..Len(headers) : headers[k].name = name
HeaderValue(headers, name) ==
    headers[CHOOSE k \in 1..Len(headers) : headers[k].name = name].value

\* the track wrapper of the playlist payload for track k
Item(k) == [track |-> [id |-> k, name |-> k]]
\* the playlist payload with n tracks
Payload(n) == [type |-> "dict", items |-> [k \in 1..n |-> Item(k)]]

\* the audio-features entry the upstream holds for a track id
FeatureOf(id) == [id |-> id]
Reverse(s) == [k \in 1..Len(s) |-> s[Len(s) + 1 - k]]
\* the bodies of a 200 answer for a batch: its entries, in either order
\* (the API does not promise the order of the ids)
FeatureBodies(batch) ==
    LET entries == [k \in 1..Len(batch) |-> FeatureOf(batch[k])]
    IN  { entries, Reverse(entries) }

\* every answer the audio-features endpoint can give to a batch
FeatureResponses(batch) ==
    { [status_code |-> HTTP_OK, headers |-> <<>>, audio_features |-> b] :
          b \in FeatureBodies(batch) }
    \cup
    { [status_code |-> HTTP_TOO_MANY_REQUESTS, headers |-> h, audio_features |-> <<>>] :
          h \in HeaderSets }
    \cup
    { [status_code |-> s, headers |-> <<>>, audio_features |-> <<>>] :
          s \in FeatureStatuses \ {HTTP_OK, HTTP_TOO_MANY_REQUESTS} }

-----------------------------------------------------------------------------
(* fetch_playlist_tracks *)

\* what fetch_playlist_tracks returns for the upstream's answer
fetch_playlist_tracks(response) ==
    IF response.status_code = 200 THEN response.json ELSE None

\* json.dump of the value save_response is given
json_dump(value) == IF value = None THEN [type |-> "null"] ELSE value

-----------------------------------------------------------------------------
(* fetch_features: one iteration of  for batch in chunk_list(track_id, 20) *)

\* int(response.headers.get("Retry-After", 1))
retry_after(response) ==
    IF HasHeader(response.headers, "Retry-After")
    THEN int(HeaderValue(response.headers, "Retry-After"))
    ELSE 1

\* features_after assigning the batch's entries instead of extending the list
features_after_Assigns(list, response) ==
    IF response.status_code = 200 THEN response.audio_features ELSE list

\* features_list after the answer to one batch
features_after(list, response) ==
    IF response.status_code = 200
    THEN list \o response.audio_features
    ELSE list

\* the seconds slept after the answer to one batch
slept_after(response) ==
    IF response.status_code = 200 THEN 0
    ELSE IF response.status_code = 429 THEN retry_after(response)
    ELSE 0

\* next_i keeping the generator on the same batch after a 429
next_i_RetriesOn429(at, response) ==
    IF response.status_code = 429 THEN at ELSE range_step(BatchSize, at)

\* the loop variable after the answer to one batch: the for loop takes the
\* generator's next chunk whatever the answer was
next_i(at, response) == range_step(BatchSize, at)

-----------------------------------------------------------------------------
(* process_playlist, a step per statement; fetch_features a step per batch *)

NoFile == [type |-> "no file"]

FetchInit ==
    /\ pc = "fetch_playlist_tracks"
    /\ playlist_fetched = None
    /\ raw_tracks_file = NoFile
    /\ items = <<>>
    /\ track_ids = <<>>
    /\ i = 0
    /\ features_list = <<>>
    /\ requests = <<>>
    /\ exception = "none"
    /\ raw_features_file = NoFile

\* line 117: playlist_fetched = fetch_playlist_tracks(playlist_id, token)
FetchPlaylistTracks ==
    /\ pc = "fetch_playlist_tracks"
    /\ \E status \in PlaylistStatuses, n \in 0..MaxTracks :
          playlist_fetched' =
              fetch_playlist_tracks([status_code |-> status, json |-> Payload(n)])
    /\ pc' = "save_response"
    /\ UNCHANGED <<raw_tracks_file, items, track_ids, i, features_list,
                   requests, exception, raw_features_file, chunkVars, tableVars, storeVars, featureVars>>

\* line 118: save_response(playlist_fetched, playlist_name)
SaveResponse ==
    /\ pc = "save_response"
    /\ raw_tracks_file' = json_dump(playlist_fetched)
    /\ pc' = "items"
    /\ UNCHANGED <<playlist_fetched, items, track_ids, i, features_list,
                   requests, exception, raw_features_file, chunkVars, tableVars, storeVars, featureVars>>

\* line 121: items = playlist_fetched["items"]; None is not subscriptable
ReadItems ==
    /\ pc = "items"
    /\ IF playlist_fetched = None
       THEN /\ exception' = "TypeError"
            /\ pc' = "raised"
            /\ UNCHANGED items
       ELSE /\ items' = playlist_fetched.items
            /\ pc' = "normalize"
            /\ UNCHANGED exception
    /\ UNCHANGED <<playlist_fetched, raw_tracks_file, track_ids, i,
                   features_list, requests, raw_features_file, chunkVars, tableVars, storeVars, featureVars>>

\* lines 122-131: the "track.id" column of the normalized items, as a list
Normalize ==
    /\ pc = "normalize"
    /\ track_ids' = [k \in 1..Len(items) |-> items[k].track.id]
    /\ pc' = "fetch_features"
    /\ i' = 0
    /\ features_list' = <<>>
    /\ UNCHANGED <<playlist_fetched, raw_tracks_file, items, requests,
                   exception, raw_features_file, chunkVars, tableVars, storeVars, featureVars>>

\* lines 84-100: the request for the next batch and the branch on its answer
FetchBatch ==
    /\ pc = "fetch_features"
    /\ range_has_next(track_ids, i)
    /\ LET batch == chunk_at(track_ids, BatchSize, i)
       IN  \E response \in FeatureResponses(batch) :
              /\ features_list' = features_after(features_list, response)
              /\ requests' = Append(requests,
                                    [at |-> i, batch |-> batch,
                                     response |-> response,
                                     slept |-> slept_after(response)])
              /\ i' = next_i(i, response)
    /\ UNCHANGED <<pc, playlist_fetched, raw_tracks_file, items, track_ids,
                   exception, raw_features_file, chunkVars, tableVars, storeVars, featureVars>>

\* line 101: the generator is exhausted, fetch_features returns features_list
FetchReturn ==
    /\ pc = "fetch_features"
    /\ ~range_has_next(track_ids, i)
    /\ pc' = "save_features"
    /\ UNCHANGED <<playlist_fetched, raw_tracks_file, items, track_ids, i,
                   features_list, requests, exception, raw_features_file,
                   chunkVars, tableVars, storeVars, featureVars>>

\* lines 137-140: the raw features file is written, process_playlist returns
SaveFeatures ==
    /\ pc = "save_features"
    /\ raw_features_file' = [type |-> "json", content |-> features_list]
    /\ pc' = "returned"
    /\ UNCHANGED <<playlist_fetched, raw_tracks_file, items, track_ids, i,
                   features_list, requests, exception, chunkVars, tableVars, storeVars, featureVars>>

-----------------------------------------------------------------------------
(* chunk_list called on its own, a step per yield *)

Elements == {"a", "b"}

RECURSIVE SeqsUpTo(_, _)
SeqsUpTo(S, n) ==
    IF n = 0 THEN { <<>> }
    ELSE LET shorter == SeqsUpTo(S, n - 1)
         IN  shorter \cup { Append(s, x) : s \in shorter, x \in S }

ChunkIdle ==
    /\ cl_pc = "idle"
    /\ cl_list = <<>>
    /\ cl_n = 1
    /\ cl_i = 0
    /\ cl_yielded = <<>>

ChunkInit ==
    /\ cl_pc = "running"
    /\ cl_list \in SeqsUpTo(Elements, MaxLen)
    /\ cl_n \in 1..MaxN
    /\ cl_i = 0
    /\ cl_yielded = <<>>

\* line 64: yield list[i : i + n]
ChunkYield ==
    /\ cl_pc = "running"
    /\ range_has_next(cl_list, cl_i)
    /\ cl_yielded' = Append(cl_yielded, chunk_at(cl_list, cl_n, cl_i))
    /\ cl_i' = range_step(cl_n, cl_i)
    /\ UNCHANGED <<cl_pc, cl_list, cl_n, fetchVars, tableVars, storeVars,
                   featureVars>>

\* line 63: range(0, len(list), n) is exhausted
ChunkExhausted ==
    /\ cl_pc = "running"
    /\ ~range_has_next(cl_list, cl_i)
    /\ cl_pc' = "exhausted"
    /\ UNCHANGED <<cl_list, cl_n, cl_i, cl_yielded, fetchVars, tableVars, storeVars,
                   featureVars>>

FetchIdle ==
    /\ pc = "idle"
    /\ playlist_fetched = None
    /\ raw_tracks_file = NoFile
    /\ items = <<>>
    /\ track_ids = <<>>
    /\ i = 0
    /\ features_list = <<>>
    /\ requests = <<>>
    /\ exception = "none"
    /\ raw_features_file = NoFile

-----------------------------------------------------------------------------
(* Numbers of any size: Python's integers are unbounded, and the limits   *)
(* create_table compares with do not fit TLC's 32-bit integers. A number *)
(* is its sign and the decimal digits of its magnitude, split before the  *)
(* last five: Number(TRUE, 21474, 83648) is -2147483648.                  *)

Number(neg, hi, lo) == [neg |-> neg, hi |-> hi, lo |-> lo]

MagnitudeLeq(a, b) == a.hi < b.hi \/ (a.hi = b.hi /\ a.lo <= b.lo)

\* a <= b
Leq(a, b) ==
    IF a.neg = b.neg
    THEN IF a.neg THEN MagnitudeLeq(b, a) ELSE MagnitudeLeq(a, b)
    ELSE a.neg

\* a < b
Less(a, b) == Leq(a, b) /\ a # b

-----------------------------------------------------------------------------
(* create_table *)

\* a line of sql_parts: its clause, and the commas the line ends with
Line(clause, tail) == [clause |-> clause, tail |-> tail]

\* str.rstrip(","): the line without the commas it ends with
rstrip(line) == [line EXCEPT !.tail = <<>>]

SqlType(name, length, primary_key) ==
    [name |-> name, length |-> length, primary_key |-> primary_key]

\* line 177: "CREATE TABLE IF NOT EXISTS {table_name} ("
CreateLine(table_name) ==
    Line([kind |-> "CREATE TABLE IF NOT EXISTS", table |-> table_name], <<>>)

\* lines 180 and 201: "    {col} {sql_type},"
ColumnLine(col, sql_type) ==
    Line([kind |-> "column", col |-> col, sql_type |-> sql_type], <<",">>)

\* line 208: "    FOREIGN KEY (..) REFERENCES ..(..)"
ForeignKeyLine(foreign_key) ==
    Line([kind |-> "FOREIGN KEY", column |-> foreign_key.column,
          table |-> foreign_key.table,
          reference_column |-> foreign_key.reference_column], <<>>)

\* line 211: ");"
CloseLine == Line([kind |-> ");"], <<>>)

\* lines 189-190: the type of a string column
string_type(limits) ==
    LET length == limits.max_length + 5
    IN  IF length <= 255 THEN SqlType("VARCHAR", length, FALSE)
        ELSE SqlType("TEXT", 0, FALSE)

\* numeric_type with the upper limits compared strictly
numeric_type_StrictUpper(limits) ==
    LET min_val == limits.min
        max_val == limits.max
    IN  IF Leq(Number(TRUE, 0, 128), min_val) /\ Less(max_val, Number(FALSE, 0, 127))
        THEN SqlType("TINYINT", 0, FALSE)
        ELSE IF Leq(Number(TRUE, 0, 32768), min_val) /\ Less(max_val, Number(FALSE, 0, 32767))
        THEN SqlType("SMALLINT", 0, FALSE)
        ELSE IF Leq(Number(TRUE, 21474, 83648), min_val)
                /\ Less(max_val, Number(FALSE, 21474, 83647))
        THEN SqlType("INT", 0, FALSE)
        ELSE SqlType("BIGINT", 0, FALSE)

\* lines 192-200: the type of a numeric column
numeric_type(limits) ==
    LET min_val == limits.min
        max_val == limits.max
    IN  IF Leq(Number(TRUE, 0, 128), min_val) /\ Leq(max_val, Number(FALSE, 0, 127))
        THEN SqlType("TINYINT", 0, FALSE)
        ELSE IF Leq(Number(TRUE, 0, 32768), min_val) /\ Leq(max_val, Number(FALSE, 0, 32767))
        THEN SqlType("SMALLINT", 0, FALSE)
        ELSE IF Leq(Number(TRUE, 21474, 83648), min_val)
                /\ Leq(max_val, Number(FALSE, 21474, 83647))
        THEN SqlType("INT", 0, FALSE)
        ELSE SqlType("BIGINT", 0, FALSE)

\* lines 188-200: the type of a column from its limits
sql_type_of(limits) ==
    IF limits.type = "string" THEN string_type(limits) ELSE numeric_type(limits)

\* lines 183-201: sql_parts after the loop over the first k entries of
\* col_limit, each entry a pair of the column and its limits
RECURSIVE column_lines(_, _, _)
column_lines(sql_parts, col_limit, k) ==
    IF k = 0 THEN sql_parts
    ELSE LET before == column_lines(sql_parts, col_limit, k - 1)
             col == col_limit[k].col
             limits == col_limit[k].limits
         IN  IF col \in {"Track_ID"} THEN before
             ELSE Append(before, ColumnLine(col, sql_type_of(limits)))

\* last_part leaving the last line as it is
last_part_KeepsComma(sql_parts, foreign_key) == sql_parts

\* lines 204-209: the last clause loses its comma, or the foreign key follows
last_part(sql_parts, foreign_key) ==
    IF foreign_key = None
    THEN [sql_parts EXCEPT ![Len(sql_parts)] = rstrip(sql_parts[Len(sql_parts)])]
    ELSE Append(sql_parts, ForeignKeyLine(foreign_key))

\* lines 177-213: the statement, as the lines joined by "\n"
create_table(table_name, col_limit, foreign_key) ==
    LET head == <<CreateLine(table_name),
                  ColumnLine("Track_ID", SqlType("VARCHAR", 50, TRUE))>>
        cols == column_lines(head, col_limit, Len(col_limit))
    IN  Append(last_part(cols, foreign_key), CloseLine)

\* the values on the two sides of every limit, with 0 and 100
NumericSamples ==
    { Number(TRUE, 21474, 83649), Number(TRUE, 21474, 83648),
      Number(TRUE, 0, 32769), Number(TRUE, 0, 32768),
      Number(TRUE, 0, 129), Number(TRUE, 0, 128),
      Number(FALSE, 0, 0), Number(FALSE, 0, 100),
      Number(FALSE, 0, 127), Number(FALSE, 0, 128),
      Number(FALSE, 0, 32767), Number(FALSE, 0, 32768),
      Number(FALSE, 21474, 83647), Number(FALSE, 21474, 83648) }

NumericLimits(mins, maxs) ==
    { [type |-> "numeric", min |-> lo, max |-> hi] :
          <<lo, hi>> \in { p \in mins \X maxs : Leq(p[1], p[2]) } }
StringLimits(lengths) == { [type |-> "string", max_length |-> n] : n \in lengths }

\* the limits analyse_column_limits can report for each column
LimitsOf(col) ==
    CASE col = "Track_ID"   -> StringLimits({22})
      [] col = "Track_Name" -> StringLimits({0, 250, 251})
      [] col = "Popularity" -> NumericLimits(NumericSamples, NumericSamples)
      [] col = "Mode"       -> NumericLimits({Number(FALSE, 0, 0)}, {Number(FALSE, 0, 1)})

Columns == {"Track_ID", "Track_Name", "Popularity", "Mode"}

\* the profile mappings of at most n columns, in every order of the columns
RECURSIVE ProfileMappings(_)
ProfileMappings(n) ==
    IF n = 0 THEN { <<>> }
    ELSE LET shorter == ProfileMappings(n - 1)
         IN  shorter \cup
             { Append(m, [col |-> c, limits |-> l]) :
                 <<m, c, l>> \in
                   { t \in shorter \X Columns \X UNION { LimitsOf(c) : c \in Columns } :
                       /\ Len(t[1]) = n - 1
                       /\ \A k \in 1..Len(t[1]) : t[1][k].col # t[2]
                       /\ t[3] \in LimitsOf(t[2]) } }

ForeignKeys ==
    { None, [column |-> "Track_ID", table |-> "tracks", reference_column |-> "Track_ID"] }

TableNames == {"tracks", "features"}

TableIdle ==
    /\ ct_pc = "idle"
    /\ ct_table_name = "tracks"
    /\ ct_col_limit = <<>>
    /\ ct_foreign_key = None
    /\ ct_sql = <<>>

TableInit ==
    /\ ct_pc = "called"
    /\ ct_table_name \in TableNames
    /\ ct_col_limit \in ProfileMappings(MaxCols)
    /\ ct_foreign_key \in ForeignKeys
    /\ ct_sql = <<>>

\* lines 177-213
CreateTable ==
    /\ ct_pc = "called"
    /\ ct_sql' = create_table(ct_table_name, ct_col_limit, ct_foreign_key)
    /\ ct_pc' = "returned"
    /\ UNCHANGED <<ct_table_name, ct_col_limit, ct_foreign_key, fetchVars, chunkVars,
                   storeVars, featureVars>>

-----------------------------------------------------------------------------
(* analyse_column_limits, on frames of a string column Track_ID (a value  *)
(* is its characters) and a numeric column Popularity                     *)

Max(a, b) == IF a >= b THEN a ELSE b

\* col_data.astype(str).map(len).max()
RECURSIVE max_length(_, _)
max_length(rows, col) ==
    IF Len(rows) = 1 THEN Len(rows[1][col])
    ELSE Max(max_length(SubSeq(rows, 1, Len(rows) - 1), col), Len(rows[Len(rows)][col]))

\* col_data.min()
RECURSIVE min_val(_, _)
min_val(rows, col) ==
    IF Len(rows) = 1 THEN rows[1][col]
    ELSE LET m == min_val(SubSeq(rows, 1, Len(rows) - 1), col)
             v == rows[Len(rows)][col]
         IN  IF Leq(m, v) THEN m ELSE v

\* col_data.max()
RECURSIVE max_val(_, _)
max_val(rows, col) ==
    IF Len(rows) = 1 THEN rows[1][col]
    ELSE LET m == max_val(SubSeq(rows, 1, Len(rows) - 1), col)
             v == rows[Len(rows)][col]
         IN  IF Leq(v, m) THEN m ELSE v

\* lines 152-160: the limits of each column, in the order of df.columns
analyse_column_limits(df) ==
    [k \in 1..Len(df.columns) |->
        LET col == df.columns[k]
        IN  IF df.dtypes[col] = "object"
            THEN [col |-> col,
                  limits |-> [type |-> "string",
                              max_length |-> max_length(df.rows, col)]]
            ELSE [col |-> col,
                  limits |-> [type |-> "numeric",
                              min |-> min_val(df.rows, col),
                              max |-> max_val(df.rows, col)]]]

-----------------------------------------------------------------------------
(* sql_database and the two statements it sends to SQLite *)

NoTable == [exists |-> FALSE, columns |-> <<>>, foreign_keys |-> <<>>, rows |-> <<>>]

\* the lines of a statement of one kind, in order
RECURSIVE LinesOfKind(_, _)
LinesOfKind(sql, kind) ==
    IF sql = <<>> THEN <<>>
    ELSE LET rest == LinesOfKind(SubSeq(sql, 1, Len(sql) - 1), kind)
             last == sql[Len(sql)]
         IN  IF last.clause.kind = kind THEN Append(rest, last.clause) ELSE rest

\* the columns a CREATE TABLE statement declares
DeclaredColumns(sql) ==
    LET cols == LinesOfKind(sql, "column")
    IN  [k \in 1..Len(cols) |-> [name |-> cols[k].col, sql_type |-> cols[k].sql_type]]

\* line 236-237: conn.execute(sql_table); conn.commit(). CREATE TABLE IF NOT
\* EXISTS creates the declared table, without rows, unless the name exists
execute(database, sql) ==
    LET name == sql[1].clause.table
    IN  IF database[name].exists THEN database
        ELSE [database EXCEPT ![name] =
                 [exists |-> TRUE, columns |-> DeclaredColumns(sql),
                  foreign_keys |-> LinesOfKind(sql, "FOREIGN KEY"), rows |-> <<>>]]

\* the column type pandas gives a dtype when it creates a SQLite table
pandas_sql_type(dtype) ==
    IF dtype = "object" THEN SqlType("TEXT", 0, FALSE) ELSE SqlType("INTEGER", 0, FALSE)

\* the table pandas creates for a frame: its own types, no key, no index
pandas_table(df) ==
    [exists |-> TRUE,
     columns |-> [k \in 1..Len(df.columns) |->
                     [name |-> df.columns[k],
                      sql_type |-> pandas_sql_type(df.dtypes[df.columns[k]])]],
     foreign_keys |-> <<>>,
     rows |-> df.rows]

\* to_sql with if_exists="append": the rows are added to the stored table
to_sql_Appends(database, df, name) ==
    IF database[name].exists
    THEN [database EXCEPT ![name].rows = database[name].rows \o df.rows]
    ELSE [database EXCEPT ![name] = pandas_table(df)]

\* line 240: df.to_sql(type, conn, if_exists="replace", index=False): a
\* table of that name is dropped, and the frame's table created and filled
to_sql(database, df, name) ==
    [database EXCEPT ![name] = pandas_table(df)]

\* the records the frames are made of
Records == { [Track_ID |-> <<"a">>, Popularity |-> Number(FALSE, 0, 5)],
             [Track_ID |-> <<"b", "c">>, Popularity |-> Number(FALSE, 0, 200)] }

\* the frames of 1 to n records (analyse_column_limits reads the dtypes and
\* limits of a frame that has rows)
RECURSIVE RowsUpTo(_)
RowsUpTo(n) ==
    IF n = 1 THEN { <<r>> : r \in Records }
    ELSE LET shorter == RowsUpTo(n - 1)
         IN  shorter \cup { Append(s, r) : s \in {x \in shorter : Len(x) = n - 1},
                                           r \in Records }

Frame(rows) ==
    [columns |-> <<"Track_ID", "Popularity">>,
     dtypes |-> [Track_ID |-> "object", Popularity |-> "int64"],
     rows |-> rows]

NoFrame == Frame(<<>>)

StoreInit ==
    /\ st_pc = "idle"
    /\ st_df = NoFrame
    /\ st_type = "tracks"
    /\ st_sql = <<>>
    /\ db = [name \in TableNames |-> NoTable]
    /\ st_runs = [name \in TableNames |-> 0]
    /\ st_last = [name \in TableNames |-> <<>>]

\* lines 230-237: the limits, the statement, its execution and the commit.
\* The notebook stores "features" with a foreign key to "tracks".
SqlDatabase ==
    /\ st_pc = "idle"
    /\ \E rows \in RowsUpTo(MaxRows), type \in TableNames :
          LET df == Frame(rows)
              foreign_key == IF type = "features"
                             THEN [column |-> "Track_ID", table |-> "tracks",
                                   reference_column |-> "Track_ID"]
                             ELSE None
              column_limits == analyse_column_limits(df)
              sql_table == create_table(type, column_limits, foreign_key)
          IN  /\ st_runs[type] < MaxRuns
              /\ st_df' = df
              /\ st_type' = type
              /\ st_sql' = sql_table
              /\ db' = execute(db, sql_table)
    /\ st_pc' = "to_sql"
    /\ UNCHANGED <<st_runs, st_last, fetchVars, chunkVars, tableVars, featureVars>>

\* lines 240-241: the records are written and sql_database returns
ToSql ==
    /\ st_pc = "to_sql"
    /\ db' = to_sql(db, st_df, st_type)
    /\ st_runs' = [st_runs EXCEPT ![st_type] = @ + 1]
    /\ st_last' = [st_last EXCEPT ![st_type] = st_df.rows]
    /\ st_pc' = "idle"
    /\ UNCHANGED <<st_df, st_type, st_sql, fetchVars, chunkVars, tableVars, featureVars>>

StoreIdle ==
    /\ st_pc = "unused"
    /\ st_df = NoFrame
    /\ st_type = "tracks"
    /\ st_sql = <<>>
    /\ db = [name \in TableNames |-> NoTable]
    /\ st_runs = [name \in TableNames |-> 0]
    /\ st_last = [name \in TableNames |-> <<>>]

-----------------------------------------------------------------------------
(* process_features. A frame is the sequence of its rows, each with its   *)
(* index label; Energy stands for the four rounded columns and is counted *)
(* in ten-thousandths.                                                    *)

\* lines 113-122: the named columns, renamed; the index is kept
select_rename(df) ==
    [k \in 1..Len(df) |->
        [index |-> df[k].index, Track_ID |-> df[k].id,
         Energy |-> df[k].energy, Mode |-> df[k].mode]]

\* drop_duplicates keeping the last row of each Track_ID
RECURSIVE drop_duplicates_KeepLast(_)
drop_duplicates_KeepLast(df) ==
    IF df = <<>> THEN <<>>
    ELSE LET rest == SubSeq(df, 2, Len(df))
         IN  IF \E k \in 1..Len(rest) : rest[k].Track_ID = df[1].Track_ID
             THEN drop_duplicates_KeepLast(rest)
             ELSE <<df[1]>> \o drop_duplicates_KeepLast(rest)

\* line 125: df.drop_duplicates(subset="Track_ID"): a row is dropped when an
\* earlier row has its Track_ID; the rows kept keep their index labels
RECURSIVE drop_duplicates(_)
drop_duplicates(df) ==
    IF df = <<>> THEN <<>>
    ELSE LET earlier == SubSeq(df, 1, Len(df) - 1)
             last == df[Len(df)]
         IN  IF \E k \in 1..Len(earlier) : earlier[k].Track_ID = last.Track_ID
             THEN drop_duplicates(earlier)
             ELSE Append(drop_duplicates(earlier), last)

\* round(3) of a value in ten-thousandths: to the nearest thousandth, a
\* tie to the even one
round3(v) ==
    LET q == v \div 10
        r == v % 10
    IN  IF r < 5 THEN 10 * q
        ELSE IF r > 5 THEN 10 * (q + 1)
        ELSE IF q % 2 = 0 THEN 10 * q ELSE 10 * (q + 1)

\* lines 128-130: every column but Track_ID and Mode is rounded
round_columns(df) ==
    [k \in 1..Len(df) |-> [df[k] EXCEPT !.Energy = round3(df[k].Energy)]]

\* line 133: df.index = range(1, len(df) + 1)
reindex(df) == [k \in 1..Len(df) |-> [df[k] EXCEPT !.index = k]]

\* the audio-features entries a frame is read from
Entries == { [id |-> t, energy |-> e, mode |-> 1, uri |-> t] :
                 t \in {"a", "b"}, e \in {1234, 1236} }

\* the frame of a list of entries: the rows labelled 0, 1, ...
FrameOf(entries) ==
    [k \in 1..Len(entries) |->
        [index |-> k - 1, id |-> entries[k].id, energy |-> entries[k].energy,
         mode |-> entries[k].mode, uri |-> entries[k].uri]]

FeaturesInit ==
    /\ pf_pc = "select"
    /\ pf_input \in { FrameOf(e) : e \in SeqsUpTo(Entries, MaxEntries) }
    /\ pf_df = pf_input

FeaturesIdle ==
    /\ pf_pc = "idle"
    /\ pf_input = <<>>
    /\ pf_df = <<>>

\* lines 113-122
SelectRename ==
    /\ pf_pc = "select"
    /\ pf_df' = select_rename(pf_df)
    /\ pf_pc' = "drop_duplicates"
    /\ UNCHANGED <<pf_input, fetchVars, chunkVars, tableVars, storeVars>>

\* line 125
DropDuplicates ==
    /\ pf_pc = "drop_duplicates"
    /\ pf_df' = drop_duplicates(pf_df)
    /\ pf_pc' = "round"
    /\ UNCHANGED <<pf_input, fetchVars, chunkVars, tableVars, storeVars>>

\* lines 128-130
RoundColumns ==
    /\ pf_pc = "round"
    /\ pf_df' = round_columns(pf_df)
    /\ pf_pc' = "index"
    /\ UNCHANGED <<pf_input, fetchVars, chunkVars, tableVars, storeVars>>

\* lines 133-135
Reindex ==
    /\ pf_pc = "index"
    /\ pf_df' = reindex(pf_df)
    /\ pf_pc' = "returned"
    /\ UNCHANGED <<pf_input, fetchVars, chunkVars, tableVars, storeVars>>

-----------------------------------------------------------------------------
(* Specifications *)

NextFetch ==
    \/ FetchPlaylistTracks
    \/ SaveResponse
    \/ ReadItems
    \/ Normalize
    \/ FetchBatch
    \/ FetchReturn
    \/ SaveFeatures

\* process_playlist run once
InitFetch == FetchInit /\ ChunkIdle /\ TableIdle /\ StoreIdle /\ FeaturesIdle
SpecFetch == InitFetch /\ [][NextFetch]_vars

\* the same, the interpreter always taking the next step of the running call
FairSpecFetch == SpecFetch /\ WF_vars(NextFetch)

NextChunk == ChunkYield \/ ChunkExhausted

\* chunk_list consumed to the end on a list and a chunk size
InitChunk == ChunkInit /\ FetchIdle /\ TableIdle /\ StoreIdle /\ FeaturesIdle
SpecChunk == InitChunk /\ [][NextChunk]_vars

NextTable == CreateTable

\* create_table called once on a table name, a profile mapping and a foreign key
InitTable == TableInit /\ FetchIdle /\ ChunkIdle /\ StoreIdle /\ FeaturesIdle
SpecTable == InitTable /\ [][NextTable]_vars

NextStore == SqlDatabase \/ ToSql

\* sql_database run any number of times on the database file
InitStore == StoreInit /\ FetchIdle /\ ChunkIdle /\ TableIdle /\ FeaturesIdle
SpecStore == InitStore /\ [][NextStore]_vars

NextFeatures == SelectRename \/ DropDuplicates \/ RoundColumns \/ Reindex

\* process_features called once on a frame of audio-features entries
InitFeatures == FeaturesInit /\ FetchIdle /\ ChunkIdle /\ TableIdle /\ StoreIdle
SpecFeatures == InitFeatures /\ [][NextFeatures]_vars

-----------------------------------------------------------------------------
(* Properties of fetch_features and process_playlist *)

StatusOf(k) == requests[k].response.status_code
IsRateLimited(k) == StatusOf(k) = 429
IsUpstreamError(k) == StatusOf(k) \notin {200, 429}
FetchReturned == pc \in {"save_features", "returned"}

\* the entries of the answers with status 200, in the order of the requests
RECURSIVE EntriesOfOk(_)
EntriesOfOk(log) ==
    IF log = <<>> THEN <<>>
    ELSE EntriesOfOk(SubSeq(log, 1, Len(log) - 1)) \o
         (IF log[Len(log)].response.status_code = 200
          THEN log[Len(log)].response.audio_features ELSE <<>>)

\* C1: a batch answered 429 is slept on for Retry-After seconds (1 without
\* the header) and requested again before any later batch, so that when
\* fetch_features returns every batch answered 429 has been requested again.
C1_RateLimitedBatchRetried ==
    /\ \A k \in 1..Len(requests) :
          IsRateLimited(k) =>
             /\ requests[k].slept = retry_after(requests[k].response)
             /\ k < Len(requests) => requests[k + 1].at = requests[k].at
    /\ FetchReturned =>
          \A k \in 1..Len(requests) :
             IsRateLimited(k) =>
                \E m \in (k + 1)..Len(requests) : requests[m].at = requests[k].at

\* C2: a batch answered with a status other than 200 and 429 is requested
\* exactly once and skipped without an exception, every batch is still
\* requested, and for answers made of 200s and such errors the returned list
\* is the concatenation, in batch order, of the entries of the batches
\* answered 200.
C2_ErrorBatchSkipped ==
    /\ pc \in {"fetch_features", "save_features", "returned"} => exception = "none"
    /\ \A k \in 1..Len(requests) :
          IsUpstreamError(k) =>
             Cardinality({m \in 1..Len(requests) : requests[m].at = requests[k].at}) = 1
    /\ FetchReturned =>
          LET chunks == chunk_list(track_ids, BatchSize)
          IN  /\ \A c \in 1..Len(chunks) :
                    \E k \in 1..Len(requests) : requests[k].batch = chunks[c]
              /\ (\A k \in 1..Len(requests) : ~IsRateLimited(k)) =>
                    /\ [k \in 1..Len(requests) |-> requests[k].batch] = chunks
                    /\ features_list = EntriesOfOk(requests)

\* an error on the first batch, a 200 on a later one, and the list returned
C2_Witness ==
    /\ pc = "returned"
    /\ Len(requests) >= 2
    /\ \A k \in 1..Len(requests) : ~IsRateLimited(k)
    /\ IsUpstreamError(1)
    /\ StatusOf(2) = 200
    /\ features_list # <<>>

\* C3: after a non-200 playlist answer fetch_playlist_tracks returns None
\* and process_playlist, having checked for it, neither reads the item list
\* of the absent result (no TypeError) nor normalizes nor fetches features.
C3_AbsentResultChecked ==
    (pc # "fetch_playlist_tracks" /\ playlist_fetched = None) =>
        /\ exception = "none"
        /\ pc \notin {"normalize", "fetch_features", "save_features", "returned"}
        /\ requests = <<>>

\* C9: fetch_features makes at most one request per batch and, once
\* entered, returns, whatever the upstream answers (429 to every request
\* included).
C9_FetchFeaturesTerminates ==
    /\ [](Len(requests) <= Len(chunk_list(track_ids, BatchSize)))
    /\ (pc = "fetch_features") ~> (pc = "save_features")

\* fetch_features has returned after an upstream that only answered 429
C9_Witness ==
    /\ pc = "save_features"
    /\ Len(requests) >= 2
    /\ \A k \in 1..Len(requests) : IsRateLimited(k)

-----------------------------------------------------------------------------
(* Properties of chunk_list *)

RECURSIVE Flatten(_)
Flatten(groups) ==
    IF groups = <<>> THEN <<>>
    ELSE Flatten(SubSeq(groups, 1, Len(groups) - 1)) \o groups[Len(groups)]

\* ceil(a / b) for a >= 0, b > 0
CeilDiv(a, b) == (a + b - 1) \div b

\* C4: chunk_list(S, n) yields ceil(|S|/n) groups, each of n elements but
\* the last, which has between 1 and n, and their concatenation is S.
C4_ChunksPartition ==
    cl_pc = "exhausted" =>
        /\ Len(cl_yielded) = CeilDiv(Len(cl_list), cl_n)
        /\ \A g \in 1..Len(cl_yielded) :
              IF g < Len(cl_yielded)
              THEN Len(cl_yielded[g]) = cl_n
              ELSE Len(cl_yielded[g]) \in 1..cl_n
        /\ Flatten(cl_yielded) = cl_list
        /\ cl_yielded = chunk_list(cl_list, cl_n)

\* a list that does not divide evenly: a full group and a shorter last one
C4_Witness ==
    /\ cl_pc = "exhausted"
    /\ Len(cl_list) = 4
    /\ cl_n = 3
    /\ Len(cl_yielded) = 2
    /\ Len(cl_yielded[2]) = 1

-----------------------------------------------------------------------------
(* Properties of create_table *)

\* the type the statement declares for a column other than Track_ID
DeclaredType(sql, col) ==
    sql[CHOOSE j \in 3..Len(sql) :
            sql[j].clause.kind = "column" /\ sql[j].clause.col = col].clause.sql_type

IsDeclared(sql, col) ==
    \E j \in 3..Len(sql) : sql[j].clause.kind = "column" /\ sql[j].clause.col = col

\* min and max both lie in the closed range [lo, hi]
Within(limits, lo, hi) == Leq(lo, limits.min) /\ Leq(limits.max, hi)

\* the name of the type the rule of the specification gives a numeric profile
NumericRule(limits) ==
    CASE Within(limits, Number(TRUE, 0, 128), Number(FALSE, 0, 127)) -> "TINYINT"
      [] ~Within(limits, Number(TRUE, 0, 128), Number(FALSE, 0, 127))
         /\ Within(limits, Number(TRUE, 0, 32768), Number(FALSE, 0, 32767)) -> "SMALLINT"
      [] ~Within(limits, Number(TRUE, 0, 32768), Number(FALSE, 0, 32767))
         /\ Within(limits, Number(TRUE, 21474, 83648), Number(FALSE, 21474, 83647)) -> "INT"
      [] OTHER -> "BIGINT"

Zero == Number(FALSE, 0, 0)

\* profiles on the two sides of each limit, with the type of each
BoundaryCases ==
    { <<Zero, Number(FALSE, 0, 100), "TINYINT">>,
      <<Zero, Number(FALSE, 0, 127), "TINYINT">>,
      <<Zero, Number(FALSE, 0, 128), "SMALLINT">>,
      <<Zero, Number(FALSE, 0, 32767), "SMALLINT">>,
      <<Zero, Number(FALSE, 0, 32768), "INT">>,
      <<Zero, Number(FALSE, 21474, 83647), "INT">>,
      <<Zero, Number(FALSE, 21474, 83648), "BIGINT">>,
      <<Number(TRUE, 0, 128), Zero, "TINYINT">>,
      <<Number(TRUE, 0, 129), Zero, "SMALLINT">>,
      <<Number(TRUE, 0, 32768), Zero, "SMALLINT">>,
      <<Number(TRUE, 0, 32769), Zero, "INT">>,
      <<Number(TRUE, 21474, 83648), Zero, "INT">>,
      <<Number(TRUE, 21474, 83649), Zero, "BIGINT">> }

\* C5: every column other than Track_ID is declared with the type of the
\* rule: TINYINT, SMALLINT, INT or BIGINT by the closed ranges its min and
\* max fit in; VARCHAR(max_length + 5) when that is at most 255, else TEXT.
C5_TypeDerivation ==
    ct_pc = "returned" =>
        \A k \in 1..Len(ct_col_limit) :
            LET col == ct_col_limit[k].col
                limits == ct_col_limit[k].limits
            IN  col # "Track_ID" =>
                  /\ IsDeclared(ct_sql, col)
                  /\ ~DeclaredType(ct_sql, col).primary_key
                  /\ limits.type = "numeric" =>
                        /\ DeclaredType(ct_sql, col).name = NumericRule(limits)
                        /\ \A c \in BoundaryCases :
                              (limits.min = c[1] /\ limits.max = c[2]) =>
                                  DeclaredType(ct_sql, col).name = c[3]
                  /\ limits.type = "string" =>
                        IF limits.max_length + 5 <= 255
                        THEN /\ DeclaredType(ct_sql, col).name = "VARCHAR"
                             /\ DeclaredType(ct_sql, col).length = limits.max_length + 5
                        ELSE DeclaredType(ct_sql, col).name = "TEXT"

\* Track_ID of 22 characters and Popularity from 0 to 100: a TINYINT
C5_Witness ==
    /\ ct_pc = "returned"
    /\ ct_col_limit =
          << [col |-> "Track_ID", limits |-> [type |-> "string", max_length |-> 22]],
             [col |-> "Popularity",
              limits |-> [type |-> "numeric", min |-> Zero,
                          max |-> Number(FALSE, 0, 100)]] >>
    /\ DeclaredType(ct_sql, "Popularity").name = "TINYINT"

\* the entries of a profile mapping for the columns other than Track_ID
RECURSIVE NonKey(_)
NonKey(col_limit) ==
    IF col_limit = <<>> THEN <<>>
    ELSE LET rest == NonKey(SubSeq(col_limit, 1, Len(col_limit) - 1))
             last == col_limit[Len(col_limit)]
         IN  IF last.col = "Track_ID" THEN rest ELSE Append(rest, last)

\* C6: the statement is CREATE TABLE IF NOT EXISTS on the table name; its
\* first clause is Track_ID VARCHAR(50) PRIMARY KEY; one clause follows per
\* profile other than Track_ID, in the mapping's order; then the foreign key
\* when there is one; every clause but the last ends with a comma and the
\* last one does not.
C6_StatementShape ==
    ct_pc = "returned" =>
        LET others == NonKey(ct_col_limit)
            m == Len(others)
            clauses == 1 + m + (IF ct_foreign_key = None THEN 0 ELSE 1)
        IN  /\ Len(ct_sql) = clauses + 2
            /\ ct_sql[1] = CreateLine(ct_table_name)
            /\ ct_sql[2].clause =
                  [kind |-> "column", col |-> "Track_ID",
                   sql_type |-> SqlType("VARCHAR", 50, TRUE)]
            /\ \A k \in 1..m :
                  /\ ct_sql[2 + k].clause.kind = "column"
                  /\ ct_sql[2 + k].clause.col = others[k].col
            /\ ct_foreign_key # None =>
                  ct_sql[3 + m] = ForeignKeyLine(ct_foreign_key)
            /\ ct_sql[clauses + 2] = CloseLine
            /\ \A j \in 2..(clauses + 1) :
                  ct_sql[j].tail = IF j < clauses + 1 THEN <<",">> ELSE <<>>

\* a mapping that holds only Track_ID, without a foreign key: the key's
\* clause is the last one and has lost its comma
C6_Witness ==
    /\ ct_pc = "returned"
    /\ Len(ct_col_limit) = 1
    /\ ct_col_limit[1].col = "Track_ID"
    /\ ct_foreign_key = None
    /\ Len(ct_sql) = 3
    /\ ct_sql[2].tail = <<>>

-----------------------------------------------------------------------------
(* Properties of sql_database *)

StoreRunCompleted == st_pc = "idle" /\ st_runs[st_type] > 0

\* C7: after a completed run the stored table has the schema the generated
\* statement declares: Track_ID VARCHAR(50), the primary key, first, and
\* the other columns with the types create_table derived.
C7_StoredSchemaIsDeclared ==
    StoreRunCompleted =>
        /\ db[st_type].exists
        /\ db[st_type].columns[1] =
              [name |-> "Track_ID", sql_type |-> SqlType("VARCHAR", 50, TRUE)]
        /\ db[st_type].columns = DeclaredColumns(st_sql)

\* C10: between runs, the rows of every table are the records of the last
\* completed run on its name, those of earlier runs are gone, and a name
\* never run on has no table.
C10_RowsAreLastRun ==
    st_pc = "idle" =>
        /\ \A name \in TableNames :
              IF st_runs[name] > 0
              THEN db[name].exists /\ db[name].rows = st_last[name]
              ELSE ~db[name].exists
        /\ st_runs[st_type] > 0 => db[st_type].rows = st_df.rows

\* two runs completed on the same name, the second with two records
C10_Witness ==
    /\ st_pc = "idle"
    /\ st_runs[st_type] = 2
    /\ Len(st_df.rows) = 2
    /\ db[st_type].rows = st_df.rows

-----------------------------------------------------------------------------
(* Properties of process_features *)

\* C8: the frame after drop_duplicates has pairwise distinct Track_IDs; each
\* of its rows is the first row of the input with that Track_ID; the rows
\* keep their relative order; every Track_ID of the input is kept; and
\* drop_duplicates leaves the frame as it is.
C8_Deduplication ==
    pf_pc = "round" =>
        LET input == select_rename(pf_input)
            at(k) == pf_df[k].index + 1
        IN  /\ \A k, m \in 1..Len(pf_df) :
                  k # m => pf_df[k].Track_ID # pf_df[m].Track_ID
            /\ \A k \in 1..Len(pf_df) :
                  /\ at(k) \in 1..Len(input)
                  /\ pf_df[k] = input[at(k)]
                  /\ \A j \in 1..(at(k) - 1) : input[j].Track_ID # pf_df[k].Track_ID
            /\ \A k \in 1..(Len(pf_df) - 1) : at(k) < at(k + 1)
            /\ \A j \in 1..Len(input) :
                  \E k \in 1..Len(pf_df) : pf_df[k].Track_ID = input[j].Track_ID
            /\ drop_duplicates(pf_df) = pf_df

\* a Track_ID carried by the first and the third entry, with different
\* values: the first is kept, the third dropped
C8_Witness ==
    /\ pf_pc = "round"
    /\ Len(pf_input) = 3
    /\ pf_input[1].id = pf_input[3].id
    /\ pf_input[1].energy # pf_input[3].energy
    /\ pf_input[2].id # pf_input[1].id
    /\ Len(pf_df) = 2
    /\ pf_df[1].Energy = pf_input[1].energy

====
